---------------------------- MODULE Spec2Model ----------------------------
(***************************************************************************)
(* Reverse-mode AD tape, log1p_exp nodes, the AD-aware 1-D integrator      *)
(* (integrate_1d_tsc_tscg / integrate_1d_tsc), log_mix, rowwise and the   *)
(* vectorised atan/cos of andrjohns/math_dev.                              *)
(*                                                                         *)
(* Doubles are represented by small integers (exact arithmetic); a scalar  *)
(* vari is a node whose value/adjoint block has one element, a matrix vari *)
(* a node whose block has `rows` elements.                                 *)
(***************************************************************************)
EXTENDS Integers, Sequences, FiniteSets, TLC

(* ------------------------------ bounds -------------------------------- *)
MaxTape == 3
MaxRows == 2
MaxPasses == 1
MaxN == 2
MaxPts == 2
MaxM == 2
MaxLam == 1
MaxIter == 3
MaxTrail == 1
MaxLen == 3

Vals == {0, 1}
Depths == {1, 2}
BoundVals == {"finite", "+inf", "-inf", "nan"}
VecVals == {-1, 0, 2}
ThetaVals == {"0.5", "1.5", "nan"}
LamVals == {"0.5", "nan", "inf"}

VARIABLES
  tape,       \* ChainableStack var_stack_: sequence of nodes
  nested,     \* nested_var_stack_sizes_: stack of checkpoints
  pass,       \* position of the running reverse pass (grad())
  chained,    \* order in which chain() was called in the current/last pass
  writes,     \* <<chainer, written index>> pairs of the current/last pass
  passes      \* number of reverse passes started

tapeVars == <<tape, nested, pass, chained, writes, passes>>

VARIABLES
  ipc,        \* position inside integrate_1d_tsc_tscg / integrate_1d_tsc
  mode,       \* "tscg" (analytic gradient) or "tsc" (nested AD)
  lim_a,      \* a, the lower limit of integration
  lim_b,      \* b, the upper limit of integration
  isVar,      \* !is_constant_struct<T_param>::value
  pvals,      \* value_of(param)
  param,      \* tape indices of param's varis (empty for a double param)
  fcomp,      \* the component of param the oracle f reads
  fdepth,     \* the number of nodes the oracle f builds under AD
  loop_n,     \* n, the loop index over the components
  clean,      \* clean_param: tape indices of the differentiable copy
  evals,      \* oracle evaluations of the running quadrature
  acc,        \* value accumulated by the running quadrature
  events,     \* de_integrator / start_nested / to_var /
              \* recover_memory_nested calls, in order
  fcalls,     \* calls of the oracle f
  gcalls,     \* calls of the gradient g
  grad,       \* grad[] (tscg) / results[] (tsc)
  val_,       \* the integral's value
  err,        \* what the call threw, "none" if nothing
  tape0,      \* the tape when the integrator was called
  tapeN,      \* the tape when start_nested was called
  lastEval    \* the last gradient_of_f call: depth, component, result

integVars == <<ipc, mode, lim_a, lim_b, isVar, pvals, param, fcomp, fdepth,
               loop_n, clean, evals,
               acc, events, fcalls, gcalls, grad, val_, err, tape0,
               tapeN, lastEval>>

(* the arguments of the integrator call, fixed while it runs *)
callArgs == <<mode, lim_a, lim_b, isVar, pvals, param, fcomp, fdepth, tape0>>

VARIABLES
  lpc,        \* position inside log_mix
  theta,      \* mixing proportions
  lambda,     \* array of vectors of log densities
  thetaIsVar, \* !is_constant_all<T_theta>::value
  lamIsVar,   \* !is_constant_all<T_lam>::value
  lm_n,       \* n, the loop index over lambda
  reads,      \* <<n, m>>: elements lam_vec[n][m] read so far
  opsBuilt,   \* operands_and_partials ops_partials was constructed
  buildCalled,\* ops_partials.build was called
  lerr,       \* the check that threw, "none" if nothing
  lmTape0     \* the tape when log_mix was called

lmVars == <<lpc, theta, lambda, thetaIsVar, lamIsVar, lm_n, reads, opsBuilt,
            buildCalled, lerr, lmTape0>>

(* the arguments of the log_mix call, fixed while it runs *)
lmArgs == <<theta, lambda, thetaIsVar, lamIsVar, lmTape0>>

VARIABLES
  rpc,        \* position inside rowwise
  rwArgs,     \* the parameter pack: iterated inputs, the functor, the rest
  rw_i,       \* i, the row loop index
  rwReads,    \* <<argument, row>>: rows read through row(x, i + 1)
  rwCalls,    \* the argument tuples the functor was invoked on, in order
  rtn,        \* the rows of the result written so far
  rerr        \* what rowwise threw, "none" if nothing

rwVars == <<rpc, rwArgs, rw_i, rwReads, rwCalls, rtn, rerr>>

VARIABLES
  vpc,        \* which vectorised call was made
  vx, vy,     \* the two input vectors
  vout        \* what the call returned

vecVars == <<vpc, vx, vy, vout>>

vars == <<tapeVars, integVars, lmVars, rwVars, vecVars>>

(* what the operations of each component leave alone *)
passVars == <<pass, chained, writes, passes>>
othersTape == <<integVars, lmVars, rwVars, vecVars>>
othersInteg == <<passVars, lmVars, rwVars, vecVars>>
othersLm == <<nested, passVars, integVars, rwVars, vecVars>>
othersRw == <<tapeVars, integVars, lmVars, vecVars>>
othersVec == <<tapeVars, integVars, lmVars, rwVars>>

(* ------------------------------ helpers ------------------------------- *)
RECURSIVE SeqsOf(_, _)
SeqsOf(S, n) ==
  IF n = 0 THEN {<<>>}
  ELSE {Append(s, x) : s \in SeqsOf(S, n - 1), x \in S}

SeqsUpTo(S, n) == UNION {SeqsOf(S, k) : k \in 0..n}

Blocks == SeqsOf(Vals, MaxRows)

Zeros(n) == [k \in 1..n |-> 0]
Ones(n) == [k \in 1..n |-> 1]

(* prim log1p_exp(x) = log(1 + exp(x)), rounded to the integer grid *)
Log1pExpVal(v) == IF v <= -1 THEN 0 ELSE IF v <= 1 THEN 1 ELSE v

(* prim inv_logit(x), the derivative of log1p_exp, in quarter units *)
InvLogit(v) ==
  IF v <= -2 THEN 0 ELSE IF v = -1 THEN 1 ELSE IF v = 0 THEN 2
  ELSE IF v = 1 THEN 3 ELSE 4

(* ------------------------------ the tape ------------------------------ *)
(* vari constructor: the new node is pushed on the var stack *)
Push(t, node) == Append(t, node)

LeafNode(kind, vs) ==
  [kind |-> kind, val |-> vs, adj |-> Zeros(Len(vs)), op |-> <<>>,
   partials |-> <<>>]

(* log1p_exp_v_vari(avi): op_v_vari(log1p_exp(avi->val_), avi) *)
Log1pExpNodeSelfRef(t, a) ==
  [kind |-> "log1p_exp", val |-> <<Log1pExpVal(t[a].val[1])>>,
   adj |-> <<0>>, op |-> <<Len(t) + 1>>, partials |-> <<>>]

Log1pExpNode(t, a) ==
  [kind |-> "log1p_exp", val |-> <<Log1pExpVal(t[a].val[1])>>,
   adj |-> <<0>>, op |-> <<a>>, partials |-> <<>>]

(* make_callback_var(log1p_exp(x.val()), [x](vi) {...}) *)
Log1pExpMatNode(t, a) ==
  [kind |-> "log1p_exp_mat",
   val |-> [k \in 1..Len(t[a].val) |-> Log1pExpVal(t[a].val[k])],
   adj |-> Zeros(Len(t[a].val)), op |-> <<a>>, partials |-> <<>>]

IsScalar(n) == n.kind \in {"var", "log1p_exp", "ops_partials"}
IsMatrix(n) == n.kind \in {"var_mat", "log1p_exp_mat"}

(* ------------------------------ chain() ------------------------------- *)
(* log1p_exp_v_vari::chain(): avi_->adj_ += adj_ * inv_logit(avi_->val_) *)
ChainLog1pExpOverwrite(t, i) ==
  LET a == t[i].op[1] IN
  [t EXCEPT ![a].adj[1] = t[i].adj[1] * InvLogit(t[a].val[1])]

ChainLog1pExp(t, i) ==
  LET a == t[i].op[1] IN
  [t EXCEPT ![a].adj[1] = @ + t[i].adj[1] * InvLogit(t[a].val[1])]

(* x.adj().array() += vi.adj().array() * inv_logit(x.val().array()) *)
ChainLog1pExpMat(t, i) ==
  LET a == t[i].op[1] IN
  [t EXCEPT ![a].adj =
     [k \in 1..Len(t[a].adj) |->
        t[a].adj[k] + t[i].adj[k] * InvLogit(t[a].val[k])]]

(* node built by operands_and_partials: adds adj * partial into each edge *)
RECURSIVE ChainPartials(_, _, _)
ChainPartials(t, i, k) ==
  IF k = 0 THEN t
  ELSE LET u == ChainPartials(t, i, k - 1)
           a == t[i].op[k]
       IN [u EXCEPT ![a].adj[1] = @ + t[i].adj[1] * t[i].partials[k]]

(* virtual dispatch of vari::chain() *)
Chain(t, i) ==
  CASE t[i].kind = "log1p_exp" -> ChainLog1pExp(t, i)
    [] t[i].kind = "log1p_exp_mat" -> ChainLog1pExpMat(t, i)
    [] t[i].kind = "ops_partials" -> ChainPartials(t, i, Len(t[i].op))
    [] OTHER -> t

(* indices whose adjoint chain() of node i writes into: those that change
   when the node carries a unit adjoint *)
Written(t, i) ==
  LET u == [t EXCEPT ![i].adj = Ones(Len(t[i].adj))]
  IN {j \in 1..Len(t) : Chain(u, i)[j].adj # u[j].adj}

(* start of the innermost nested region, 0 outside any region *)
Floor(nst) == IF nst = <<>> THEN 0 ELSE nst[Len(nst)]

ZeroAdjFrom(t, from) ==
  [j \in 1..Len(t) |->
     IF j > from THEN [t[j] EXCEPT !.adj = Zeros(Len(t[j].adj))] ELSE t[j]]

(* --------------------------- tape operations -------------------------- *)
Idle == ~pass.active

(* var x(v) *)
NewVar(v) ==
  /\ Idle /\ Len(tape) < MaxTape
  /\ tape' = Push(tape, LeafNode("var", <<v>>))
  /\ chained' = <<>> /\ writes' = {}
  /\ UNCHANGED <<nested, pass, passes>>
  /\ UNCHANGED othersTape

(* var_value<Matrix> x(vs) *)
NewMat(vs) ==
  /\ Idle /\ Len(tape) < MaxTape
  /\ tape' = Push(tape, LeafNode("var_mat", vs))
  /\ chained' = <<>> /\ writes' = {}
  /\ UNCHANGED <<nested, pass, passes>>
  /\ UNCHANGED othersTape

(* var log1p_exp(const var& a) *)
Log1pExp(a) ==
  /\ Idle /\ Len(tape) < MaxTape
  /\ a \in 1..Len(tape) /\ IsScalar(tape[a])
  /\ tape' = Push(tape, Log1pExpNode(tape, a))
  /\ chained' = <<>> /\ writes' = {}
  /\ UNCHANGED <<nested, pass, passes>>
  /\ UNCHANGED othersTape

(* auto log1p_exp(const T& x), T a var matrix *)
Log1pExpMat(a) ==
  /\ Idle /\ Len(tape) < MaxTape
  /\ a \in 1..Len(tape) /\ IsMatrix(tape[a])
  /\ tape' = Push(tape, Log1pExpMatNode(tape, a))
  /\ chained' = <<>> /\ writes' = {}
  /\ UNCHANGED <<nested, pass, passes>>
  /\ UNCHANGED othersTape

(* grad(vi): vi->init_dependent(), then chain() from the top of the stack
   down to the start of the innermost nested region *)
Grad(i) ==
  /\ Idle /\ passes < MaxPasses
  /\ i \in (Floor(nested) + 1)..Len(tape)
  /\ tape' = [tape EXCEPT ![i].adj = Ones(Len(tape[i].adj))]
  /\ pass' = [active |-> TRUE, next |-> Len(tape)]
  /\ chained' = <<>> /\ writes' = {}
  /\ passes' = passes + 1
  /\ UNCHANGED nested
  /\ UNCHANGED othersTape

GradStep ==
  /\ pass.active
  /\ LET i == pass.next IN
       /\ tape' = Chain(tape, i)
       /\ chained' = Append(chained, i)
       /\ writes' = writes \cup {<<i, j>> : j \in Written(tape, i)}
       /\ pass' = [active |-> i - 1 > Floor(nested), next |-> i - 1]
  /\ UNCHANGED <<nested, passes>>
  /\ UNCHANGED othersTape

SetZeroAllAdjoints ==
  /\ Idle
  /\ \E j \in 1..Len(tape) : tape[j].adj # Zeros(Len(tape[j].adj))
  /\ tape' = ZeroAdjFrom(tape, 0)
  /\ chained' = <<>> /\ writes' = {}
  /\ UNCHANGED <<nested, pass, passes>>
  /\ UNCHANGED othersTape

TapeInit ==
  /\ tape = <<>> /\ nested = <<>>
  /\ pass = [active |-> FALSE, next |-> 0]
  /\ chained = <<>> /\ writes = {} /\ passes = 0

TapeNext ==
  \/ \E v \in Vals : NewVar(v)
  \/ \E vs \in Blocks : NewMat(vs)
  \/ \E a \in 1..MaxTape : Log1pExp(a)
  \/ \E a \in 1..MaxTape : Log1pExpMat(a)
  \/ \E i \in 1..MaxTape : Grad(i)
  \/ GradStep
  \/ SetZeroAllAdjoints

(* the integrator before any call *)
IntegQuiet ==
  /\ ipc = "idle" /\ mode = "none" /\ lim_a = "finite" /\ lim_b = "finite"
  /\ isVar = FALSE /\ pvals = <<>> /\ param = <<>> /\ fcomp = 0 /\ fdepth = 0
  /\ loop_n = 0
  /\ clean = <<>> /\ evals = 0 /\ acc = 0 /\ events = <<>>
  /\ fcalls = 0 /\ gcalls = 0 /\ grad = <<>> /\ val_ = 0 /\ err = "none"
  /\ tape0 = <<>> /\ tapeN = <<>>
  /\ lastEval = [depth |-> 0, comp |-> 0, ret |-> 0]

(* log_mix before any call *)
LmQuiet ==
  /\ lpc = "idle" /\ theta = <<>> /\ lambda = <<>>
  /\ thetaIsVar = FALSE /\ lamIsVar = FALSE /\ lm_n = 0 /\ reads = {}
  /\ opsBuilt = FALSE /\ buildCalled = FALSE /\ lerr = "none"
  /\ lmTape0 = <<>>

(* rowwise before any call *)
RwQuiet ==
  /\ rpc = "idle" /\ rwArgs = <<>> /\ rw_i = 0 /\ rwReads = {}
  /\ rwCalls = <<>> /\ rtn = <<>> /\ rerr = "none"

(* no vectorised call made *)
VecQuiet == vpc = "idle" /\ vx = <<>> /\ vy = <<>> /\ vout = <<>>

TapeSpecInit == TapeInit /\ IntegQuiet /\ LmQuiet /\ RwQuiet /\ VecQuiet

SpecTape == TapeSpecInit /\ [][TapeNext]_vars

(* --------------------------- the integrator --------------------------- *)
N == Len(pvals)

(* check_finite(function, name, x): passes only for a finite x *)
IsFinite(x) == x = "finite"

(* integrate_1d_tsc_tscg: check_finite on a, then on b *)
TscgBoundsLowerOnly(lo, hi) == IsFinite(lo)

TscgBoundsFinite(lo, hi) == IsFinite(lo) /\ IsFinite(hi)

(* integrate_1d_tsc: check_finite on a, then on b *)
TscBoundsLowerOnly(lo, hi) == IsFinite(lo)

TscBoundsFinite(lo, hi) == IsFinite(lo) /\ IsFinite(hi)

(* for (size_t n = 0; n < N; n++) of integrate_1d_tsc_tscg *)
TscgLoopCondShort(k, nn) == k < nn - 1

TscgLoopCond(k, nn) == k < nn

(* for (size_t n = 0; n < N; n++) of integrate_1d_tsc *)
TscLoopCondShort(k, nn) == k < nn - 1

TscLoopCond(k, nn) == k < nn

(* catch (const std::exception& e): the handler an exception lands in *)
CatchesAll(kind) == TRUE

Catches(kind) == kind = "std"

(* auto clean_param = to_var(value_of(param)): fresh varis on the tape *)
ToVarValueOfAlias(t, prm, vs) == [tape |-> t, handles |-> prm]

ToVarValueOf(t, prm, vs) ==
  [tape |-> t \o [k \in 1..Len(vs) |-> LeafNode("var", <<vs[k]>>)],
   handles |-> [k \in 1..Len(vs) |-> Len(t) + k]]

(* the oracle f under AD: log1p_exp applied `depth` times to one component
   of its parameter argument *)
RECURSIVE BuildF(_, _, _)
BuildF(t, operand, depth) ==
  IF depth = 0 THEN t
  ELSE BuildF(Push(t, Log1pExpNode(t, operand)), Len(t) + 1, depth - 1)

(* the depth of the expression the oracle builds at the k-th quadrature
   point: the points x of one quadrature alternate between the two depths *)
DepthAt(k) == IF k % 2 = 0 THEN fdepth ELSE (fdepth % 2) + 1

(* grad(vi) inside a nested region: chain() from the top of the stack down
   to the region's start *)
RECURSIVE RunPass(_, _, _)
RunPass(t, i, floor) ==
  IF i <= floor THEN t ELSE RunPass(Chain(t, i), i - 1, floor)

GradNested(t, vi, nst) ==
  RunPass([t EXCEPT ![vi].adj = Ones(Len(t[vi].adj))], Len(t), Floor(nst))

(* gradient_of_f: set_zero_all_adjoints_nested(); f(x, param, msgs).grad();
   return param_n.adj() *)
GradientOfFNoZero(t, nst, handles, depth, pn) ==
  LET t2 == BuildF(t, handles[fcomp], depth)
      t3 == GradNested(t2, Len(t2), nst)
  IN [tape |-> t3, ret |-> t3[pn].adj[1]]

GradientOfF(t, nst, handles, depth, pn) ==
  LET t1 == ZeroAdjFrom(t, Floor(nst))
      t2 == BuildF(t1, handles[fcomp], depth)
      t3 == GradNested(t2, Len(t2), nst)
  IN [tape |-> t3, ret |-> t3[pn].adj[1]]

(* operands_and_partials<T_param> ops_partials(param);
   partials_[n] += grad[n]; build(val_) *)
BuildPartials(t, prm, g, v) ==
  Push(t, [kind |-> "ops_partials", val |-> <<v>>, adj |-> <<0>>,
           op |-> prm, partials |-> g])

Outcomes == {"ok", "std", "other"}

Quad(fn, comp) == <<"de_integrator", fn, comp>>

IntegInit ==
  /\ mode \in {"tscg", "tsc"}
  /\ lim_a \in BoundVals /\ lim_b \in BoundVals
  /\ isVar \in BOOLEAN
  /\ pvals \in SeqsUpTo(Vals, MaxN)
  /\ fcomp \in IF pvals = <<>> THEN {0} ELSE 1..Len(pvals)
  /\ fdepth \in Depths
  /\ param = IF isVar THEN [k \in 1..Len(pvals) |-> k] ELSE <<>>
  /\ \E adj0 \in {0, 1} :
       tape = IF isVar
              THEN [k \in 1..Len(pvals) |->
                      [LeafNode("var", <<pvals[k]>>) EXCEPT !.adj = <<adj0>>]]
              ELSE <<>>
  /\ tape0 = tape /\ tapeN = <<>>
  /\ nested = <<>>
  /\ ipc = "entry" /\ loop_n = 0 /\ clean = <<>> /\ evals = 0 /\ acc = 0
  /\ events = <<>> /\ fcalls = 0 /\ gcalls = 0 /\ grad = <<>> /\ val_ = 0
  /\ err = "none" /\ lastEval = [depth |-> 0, comp |-> 0, ret |-> 0]
  /\ pass = [active |-> FALSE, next |-> 0]
  /\ chained = <<>> /\ writes = {} /\ passes = 0

(* integrate_1d_tsc_tscg, up to the branch on is_constant_struct *)
TscgEnter ==
  /\ ipc = "entry" /\ mode = "tscg"
  /\ IF ~TscgBoundsFinite(lim_a, lim_b)
     THEN /\ ipc' = "threw" /\ err' = "domain_error"
          /\ UNCHANGED events
     ELSE IF isVar
     THEN ipc' = "g_loop" /\ UNCHANGED <<err, events>>
     ELSE /\ ipc' = "f_const" /\ events' = Append(events, Quad("f", 0))
          /\ UNCHANGED err
  /\ UNCHANGED <<callArgs, tape, nested, loop_n, clean, evals, acc, fcalls,
                 gcalls, grad, val_, tapeN, lastEval>>
  /\ UNCHANGED othersInteg

(* the head of the loop over g, and the quadrature over f after it *)
TscgLoop ==
  /\ ipc = "g_loop"
  /\ IF TscgLoopCond(loop_n, N)
     THEN /\ ipc' = "g_quad"
          /\ events' = Append(events, Quad("g", loop_n + 1))
     ELSE /\ ipc' = "f_quad" /\ events' = Append(events, Quad("f", 0))
  /\ evals' = 0 /\ acc' = 0
  /\ UNCHANGED <<callArgs, tape, nested, loop_n, clean, fcalls, gcalls, grad,
                 val_, err, tapeN, lastEval>>
  /\ UNCHANGED othersInteg

(* de_integrator evaluates g(x, value_of_param, n + 1, msgs) at a point *)
EvalG(v, out) ==
  /\ ipc = "g_quad" /\ evals < MaxPts
  /\ gcalls' = gcalls + 1
  /\ IF out = "ok"
     THEN evals' = evals + 1 /\ acc' = acc + v /\ UNCHANGED <<ipc, err>>
     ELSE ipc' = "threw" /\ err' = out /\ UNCHANGED <<evals, acc>>
  /\ UNCHANGED <<callArgs, tape, nested, loop_n, clean, events, fcalls, grad,
                 val_, tapeN, lastEval>>
  /\ UNCHANGED othersInteg

(* grad[n] = de_integrator(...) *)
TscgReturnG ==
  /\ ipc = "g_quad" /\ evals >= 1
  /\ grad' = Append(grad, acc)
  /\ loop_n' = loop_n + 1
  /\ ipc' = "g_loop"
  /\ UNCHANGED <<callArgs, tape, nested, clean, evals, acc, events, fcalls,
                 gcalls, val_, err, tapeN, lastEval>>
  /\ UNCHANGED othersInteg

(* de_integrator evaluates f(x, value_of(param), msgs) at a point *)
EvalF(v, out) ==
  /\ ipc \in {"f_quad", "f_const", "tsc_f"} /\ evals < MaxPts
  /\ fcalls' = fcalls + 1
  /\ IF out = "ok"
     THEN evals' = evals + 1 /\ acc' = acc + v /\ UNCHANGED <<ipc, err>>
     ELSE ipc' = "threw" /\ err' = out /\ UNCHANGED <<evals, acc>>
  /\ UNCHANGED <<callArgs, tape, nested, loop_n, clean, events, gcalls, grad,
                 val_, tapeN, lastEval>>
  /\ UNCHANGED othersInteg

(* double val_ = de_integrator(f ...) of the differentiable branch *)
TscgReturnF ==
  /\ ipc = "f_quad" /\ evals >= 1
  /\ val_' = acc /\ ipc' = "tscg_build"
  /\ UNCHANGED <<callArgs, tape, nested, loop_n, clean, evals, acc, events,
                 fcalls, gcalls, grad, err, tapeN, lastEval>>
  /\ UNCHANGED othersInteg

(* return de_integrator(f ...) of the constant branch *)
TscgReturnFConst ==
  /\ ipc = "f_const" /\ evals >= 1
  /\ val_' = acc /\ ipc' = "done"
  /\ UNCHANGED <<callArgs, tape, nested, loop_n, clean, evals, acc, events,
                 fcalls, gcalls, grad, err, tapeN, lastEval>>
  /\ UNCHANGED othersInteg

(* operands_and_partials ... return ops_partials.build(val_) *)
TscgBuild ==
  /\ ipc = "tscg_build"
  /\ tape' = BuildPartials(tape, param, grad, val_)
  /\ ipc' = "done"
  /\ UNCHANGED <<callArgs, nested, loop_n, clean, evals, acc, events, fcalls,
                 gcalls, grad, val_, err, tapeN, lastEval>>
  /\ UNCHANGED othersInteg

(* integrate_1d_tsc: the checks, then the quadrature over f begins *)
TscEnter ==
  /\ ipc = "entry" /\ mode = "tsc"
  /\ IF ~TscBoundsFinite(lim_a, lim_b)
     THEN /\ ipc' = "threw" /\ err' = "domain_error"
          /\ UNCHANGED events
     ELSE /\ ipc' = "tsc_f" /\ events' = Append(events, Quad("f", 0))
          /\ UNCHANGED err
  /\ UNCHANGED <<callArgs, tape, nested, loop_n, clean, evals, acc, fcalls,
                 gcalls, grad, val_, tapeN, lastEval>>
  /\ UNCHANGED othersInteg

(* double val_ = de_integrator(f ...); if (!is_constant_struct) ... *)
TscReturnF ==
  /\ ipc = "tsc_f" /\ evals >= 1
  /\ val_' = acc
  /\ ipc' = IF isVar THEN "start_nested" ELSE "done"
  /\ UNCHANGED <<callArgs, tape, nested, loop_n, clean, evals, acc, events,
                 fcalls, gcalls, grad, err, tapeN, lastEval>>
  /\ UNCHANGED othersInteg

(* try { start_nested(); auto clean_param = to_var(value_of(param)); *)
TscStartNested ==
  /\ ipc = "start_nested"
  /\ nested' = Append(nested, Len(tape))
  /\ tapeN' = tape
  /\ LET c == ToVarValueOf(tape, param, pvals)
     IN tape' = c.tape /\ clean' = c.handles
  /\ events' = events \o <<<<"start_nested", 0, 0>>, <<"to_var", 0, 0>>>>
  /\ loop_n' = 0
  /\ ipc' = "grad_loop"
  /\ UNCHANGED <<callArgs, evals, acc, fcalls, gcalls, grad, val_, err,
                 lastEval>>
  /\ UNCHANGED othersInteg

(* the head of the loop over the components inside the try block *)
TscLoop ==
  /\ ipc = "grad_loop"
  /\ IF TscLoopCond(loop_n, N)
     THEN /\ ipc' = "grad_quad"
          /\ events' = Append(events, Quad("gradient_of_f", loop_n))
     ELSE ipc' = "recover" /\ UNCHANGED events
  /\ evals' = 0 /\ acc' = 0
  /\ UNCHANGED <<callArgs, tape, nested, loop_n, clean, fcalls, gcalls, grad,
                 val_, err, tapeN, lastEval>>
  /\ UNCHANGED othersInteg

(* de_integrator evaluates gradient_of_f(f, x, clean_param,
   clean_param_vec[n], msgs) at a point; f may throw after building
   `depth` nodes *)
EvalGradientOfF(depth, out) ==
  /\ ipc = "grad_quad" /\ evals < MaxPts
  /\ fcalls' = fcalls + 1
  /\ IF out = "ok"
     THEN /\ depth = DepthAt(evals)
          /\ LET r == GradientOfF(tape, nested, clean, depth,
                                  clean[loop_n + 1])
             IN /\ tape' = r.tape
                /\ acc' = acc + r.ret
                /\ lastEval' = [depth |-> depth, comp |-> loop_n,
                                ret |-> r.ret]
          /\ evals' = evals + 1
          /\ UNCHANGED <<ipc, err>>
     ELSE /\ depth <= DepthAt(evals)
          /\ tape' = BuildF(ZeroAdjFrom(tape, Floor(nested)),
                            clean[fcomp], depth)
          /\ ipc' = IF Catches(out) THEN "catch" ELSE "threw"
          /\ err' = out
          /\ UNCHANGED <<evals, acc, lastEval>>
  /\ UNCHANGED <<callArgs, nested, loop_n, clean, events, gcalls, grad, val_,
                 tapeN>>
  /\ UNCHANGED othersInteg

(* results[n] = de_integrator(...) *)
TscReturnGrad ==
  /\ ipc = "grad_quad" /\ evals >= 1
  /\ grad' = Append(grad, acc)
  /\ loop_n' = loop_n + 1
  /\ ipc' = "grad_loop"
  /\ UNCHANGED <<callArgs, tape, nested, clean, evals, acc, events, fcalls,
                 gcalls, val_, err, tapeN, lastEval>>
  /\ UNCHANGED othersInteg

(* de_integrator itself fails (no convergence): a std::exception *)
QuadThrow ==
  /\ ipc \in {"g_quad", "f_quad", "f_const", "tsc_f", "grad_quad"}
  /\ err' = "std"
  /\ ipc' = IF ipc = "grad_quad" /\ Catches("std") THEN "catch" ELSE "threw"
  /\ UNCHANGED <<callArgs, tape, nested, loop_n, clean, evals, acc, events,
                 fcalls, gcalls, grad, val_, tapeN, lastEval>>
  /\ UNCHANGED othersInteg

(* recover_memory_nested(): the tape is cut back to the region's start *)
Recovered(t, nst) == SubSeq(t, 1, Floor(nst))

Popped(nst) == SubSeq(nst, 1, Len(nst) - 1)

(* } catch (const std::exception& e) { recover_memory_nested(); throw; } *)
TscCatch ==
  /\ ipc = "catch"
  /\ tape' = Recovered(tape, nested) /\ nested' = Popped(nested)
  /\ events' = Append(events, <<"recover_memory_nested", 0, 0>>)
  /\ ipc' = "threw"
  /\ UNCHANGED <<callArgs, loop_n, clean, evals, acc, fcalls, gcalls, grad,
                 val_, err, tapeN, lastEval>>
  /\ UNCHANGED othersInteg

(* recover_memory_nested() after the try block *)
TscRecover ==
  /\ ipc = "recover"
  /\ tape' = Recovered(tape, nested) /\ nested' = Popped(nested)
  /\ events' = Append(events, <<"recover_memory_nested", 0, 0>>)
  /\ ipc' = "tsc_build"
  /\ UNCHANGED <<callArgs, loop_n, clean, evals, acc, fcalls, gcalls, grad,
                 val_, err, tapeN, lastEval>>
  /\ UNCHANGED othersInteg

(* operands_and_partials ... return ops_partials.build(val_) *)
TscBuild ==
  /\ ipc = "tsc_build"
  /\ tape' = BuildPartials(tape, param, grad, val_)
  /\ ipc' = "done"
  /\ UNCHANGED <<callArgs, nested, loop_n, clean, evals, acc, events, fcalls,
                 gcalls, grad, val_, err, tapeN, lastEval>>
  /\ UNCHANGED othersInteg

IntegNext ==
  \/ TscgEnter
  \/ TscgLoop
  \/ \E v \in Vals, out \in Outcomes : EvalG(v, out)
  \/ TscgReturnG
  \/ \E v \in Vals, out \in Outcomes : EvalF(v, out)
  \/ TscgReturnF
  \/ TscgReturnFConst
  \/ TscgBuild
  \/ TscEnter
  \/ TscReturnF
  \/ TscStartNested
  \/ TscLoop
  \/ \E depth \in Depths \cup {0}, out \in Outcomes :
       EvalGradientOfF(depth, out)
  \/ TscReturnGrad
  \/ QuadThrow
  \/ TscCatch
  \/ TscRecover
  \/ TscBuild

IntegSpecInit == IntegInit /\ LmQuiet /\ RwQuiet /\ VecQuiet

SpecInteg == IntegSpecInit /\ [][IntegNext]_vars

(* ------------------------------ log_mix ------------------------------- *)
IsNan(x) == x = "nan"

FiniteVal(x) == x \notin {"nan", "inf"}

(* check_bounded(function, "theta", theta, 0, 1) *)
ThetaBounded(th) == \A m \in 1..Len(th) : th[m] = "0.5"

(* check_not_nan / check_finite on a vector *)
NotNanVec(v) == \A m \in 1..Len(v) : ~IsNan(v[m])

FiniteVec(v) == \A m \in 1..Len(v) : FiniteVal(v[m])

(* check_consistent_sizes(function, "theta", theta, "lambda", lam_vec[n]) *)
ConsistentSizes(th, v) == Len(th) = Len(v)

(* the three checks on theta, in order: the first that fails *)
ThetaCheck(th) ==
  IF ~ThetaBounded(th) THEN "check_bounded"
  ELSE IF ~NotNanVec(th) THEN "check_not_nan"
  ELSE IF ~FiniteVec(th) THEN "check_finite"
  ELSE "none"

(* the three checks on lam_vec[n], in order: the first that fails *)
LambdaCheckNoSizes(th, v) ==
  IF ~NotNanVec(v) THEN "check_not_nan"
  ELSE IF ~FiniteVec(v) THEN "check_finite"
  ELSE "none"

LambdaCheck(th, v) ==
  IF ~NotNanVec(v) THEN "check_not_nan"
  ELSE IF ~FiniteVec(v) THEN "check_finite"
  ELSE IF ~ConsistentSizes(th, v) THEN "check_consistent_sizes"
  ELSE "none"

(* the varis of a differentiable argument, one leaf per element *)
RECURSIVE Flatten(_)
Flatten(vv) == IF vv = <<>> THEN <<>> ELSE Head(vv) \o Flatten(Tail(vv))

ArgLeaves(vs) == [k \in 1..Len(vs) |-> LeafNode("var", <<vs[k]>>)]

LmInit ==
  /\ theta \in SeqsUpTo(ThetaVals, MaxM)
  /\ lambda \in SeqsUpTo(SeqsUpTo(LamVals, MaxM), MaxLam)
  /\ thetaIsVar \in BOOLEAN /\ lamIsVar \in BOOLEAN
  /\ tape = (IF thetaIsVar THEN ArgLeaves(theta) ELSE <<>>)
              \o (IF lamIsVar THEN ArgLeaves(Flatten(lambda)) ELSE <<>>)
  /\ lmTape0 = tape
  /\ lpc = "read" /\ lm_n = 0 /\ reads = {}
  /\ opsBuilt = FALSE /\ buildCalled = FALSE /\ lerr = "none"
  /\ nested = <<>>
  /\ pass = [active |-> FALSE, next |-> 0]
  /\ chained = <<>> /\ writes = {} /\ passes = 0

(* for (n < N) for (m < M) lam_dbl(m, n) = value_of(lam_vec[n][m]): one
   column per step; an index m at or beyond lam_vec[n].size() is read out
   of bounds, which either faults or yields some value *)
LmReadColumn(faults) ==
  /\ lpc = "read" /\ lm_n < Len(lambda)
  /\ reads' = reads \cup {<<lm_n, m>> : m \in 0..(Len(theta) - 1)}
  /\ IF Len(theta) > Len(lambda[lm_n + 1]) /\ faults
     THEN lpc' = "crashed" /\ UNCHANGED lm_n
     ELSE lpc' = "read" /\ lm_n' = lm_n + 1
  /\ UNCHANGED <<lmArgs, tape, opsBuilt, buildCalled, lerr>>
  /\ UNCHANGED othersLm

(* check_bounded, check_not_nan, check_finite on theta *)
LmCheckTheta ==
  /\ lpc = "read" /\ lm_n = Len(lambda)
  /\ lerr' = ThetaCheck(theta)
  /\ lpc' = IF lerr' = "none" THEN "check_lambda" ELSE "threw"
  /\ lm_n' = 0
  /\ UNCHANGED <<lmArgs, tape, reads, opsBuilt, buildCalled>>
  /\ UNCHANGED othersLm

(* the loop of checks over lam_vec[n] *)
LmCheckLambda ==
  /\ lpc = "check_lambda" /\ lm_n < Len(lambda)
  /\ lerr' = LambdaCheck(theta, lambda[lm_n + 1])
  /\ IF lerr' = "none"
     THEN lpc' = "check_lambda" /\ lm_n' = lm_n + 1
     ELSE lpc' = "threw" /\ UNCHANGED lm_n
  /\ UNCHANGED <<lmArgs, tape, reads, opsBuilt, buildCalled>>
  /\ UNCHANGED othersLm

(* logp; operands_and_partials<T_theta, T_lam> ops_partials(theta, lambda);
   the partials *)
LmOpsPartials ==
  /\ lpc = "check_lambda" /\ lm_n = Len(lambda)
  /\ opsBuilt' = TRUE
  /\ lpc' = "build"
  /\ UNCHANGED <<lmArgs, tape, lm_n, reads, buildCalled, lerr>>
  /\ UNCHANGED othersLm

(* return ops_partials.build(logp.sum()): a node only for a var argument *)
LmBuild ==
  /\ lpc = "build"
  /\ buildCalled' = TRUE
  /\ tape' = IF thetaIsVar \/ lamIsVar
             THEN Push(tape, [kind |-> "ops_partials", val |-> <<"logp">>,
                              adj |-> <<0>>, op |-> [k \in 1..Len(tape) |-> k],
                              partials |-> [k \in 1..Len(tape) |-> "d"]])
             ELSE tape
  /\ lpc' = "done"
  /\ UNCHANGED <<lmArgs, lm_n, reads, opsBuilt, lerr>>
  /\ UNCHANGED othersLm

LmNext ==
  \/ \E faults \in BOOLEAN : LmReadColumn(faults)
  \/ LmCheckTheta
  \/ LmCheckLambda
  \/ LmOpsPartials
  \/ LmBuild

LmSpecInit == LmInit /\ IntegQuiet /\ RwQuiet /\ VecQuiet

SpecLogMix == LmSpecInit /\ [][LmNext]_vars

(* ------------------------------ rowwise ------------------------------- *)
(* a container argument is known by its place in the pack and its number
   of rows; row i of it is the pair of the two *)
Container(k, r) == [kind |-> "container", id |-> k, rows |-> r]

Functor(k) == [kind |-> "functor", id |-> k, rows |-> 0]

(* is_stan_type<T>: a scalar or a container, not the functor *)
IsStanType(x) == x.kind # "functor"

(* type_count<is_stan_type, TArgs...>(): the leading arguments that are
   Stan types *)
RECURSIVE TypeCount(_, _)
TypeCount(args, x) ==
  IF x < Len(args) /\ IsStanType(args[x + 1])
  THEN TypeCount(args, x + 1) ELSE x

Pos == TypeCount(rwArgs, 0)

(* t1 = subset_tuple(args_tuple, make_index_sequence<pos>) *)
T1WithTrailing(args, ps) == SelectSeq(args, IsStanType)

T1(args, ps) == SubSeq(args, 1, ps)

(* t2 = subset_tuple(args_tuple, add_offset<pos + 1>(...)) *)
T2(args, ps) == SubSeq(args, ps + 2, Len(args))

(* rows_equal: every rows(x) equals the first one *)
RowsEqualFirstTwo(xs) ==
  \A k \in 1..Len(xs) : k <= 2 => xs[k].rows = xs[1].rows

RowsEqual(xs) == \A k \in 1..Len(xs) : xs[k].rows = xs[1].rows

(* row_index(x, i): row(args, i + 1) of every element of the tuple *)
RowIndex(xs, i) == [k \in 1..Len(xs) |-> <<xs[k].id, i + 1>>]

RowReads(xs, i) == {<<xs[k].id, i + 1>> : k \in 1..Len(xs)}

(* f(args...): the functor's result on a tuple of arguments *)
Apply(tuple) == <<"f", tuple>>

Packs ==
  {[k \in 1..Len(rs) |-> Container(k, rs[k])] \o <<Functor(Len(rs) + 1)>>
     \o [k \in 1..Len(ts) |-> Container(Len(rs) + 1 + k, ts[k])] :
   rs \in SeqsUpTo(0..MaxRows, MaxIter) \ {<<>>},
   ts \in SeqsUpTo(0..MaxRows, MaxTrail)}

RwInit ==
  /\ rwArgs \in Packs
  /\ rpc = "entry" /\ rw_i = 0 /\ rwReads = {} /\ rwCalls = <<>>
  /\ rtn = <<>> /\ rerr = "none"

(* bool eqrows = rows_equal(t1...); if (!eqrows) throw invalid_argument *)
RwCheck ==
  /\ rpc = "entry"
  /\ IF ~RowsEqual(T1(rwArgs, Pos))
     THEN rpc' = "threw" /\ rerr' = "invalid_argument"
     ELSE rpc' = "iter_0" /\ UNCHANGED rerr
  /\ UNCHANGED <<rwArgs, rw_i, rwReads, rwCalls, rtn>>
  /\ UNCHANGED othersRw

(* rs = get<0>(t1).rows(); iter_0 = f(row_index(t1, 0)..., t2...);
   rtn(rs, size(iter_0)); rtn.row(0) = iter_0.  With rs = 0 row 1 does not
   exist: row() reports it or the access is undefined *)
RwIter0(checked) ==
  /\ rpc = "iter_0"
  /\ rwReads' = rwReads \cup RowReads(T1(rwArgs, Pos), 0)
  /\ IF T1(rwArgs, Pos)[1].rows = 0
     THEN /\ IF checked
             THEN rpc' = "threw" /\ rerr' = "out_of_range"
             ELSE rpc' = "undefined" /\ UNCHANGED rerr
          /\ UNCHANGED <<rwCalls, rtn, rw_i>>
     ELSE /\ LET tuple == RowIndex(T1(rwArgs, Pos), 0) \o T2(rwArgs, Pos)
             IN /\ rwCalls' = Append(rwCalls, tuple)
                /\ rtn' = <<Apply(tuple)>>
          /\ rw_i' = 1 /\ rpc' = "loop"
          /\ UNCHANGED rerr
  /\ UNCHANGED rwArgs
  /\ UNCHANGED othersRw

(* for (size_t i = 1; i < rs; ++i) rtn.row(i) = f(row_index(t1, i)...) *)
RwLoop ==
  /\ rpc = "loop" /\ rw_i < T1(rwArgs, Pos)[1].rows
  /\ rwReads' = rwReads \cup RowReads(T1(rwArgs, Pos), rw_i)
  /\ LET tuple == RowIndex(T1(rwArgs, Pos), rw_i) \o T2(rwArgs, Pos)
     IN /\ rwCalls' = Append(rwCalls, tuple)
        /\ rtn' = Append(rtn, Apply(tuple))
  /\ rw_i' = rw_i + 1
  /\ UNCHANGED <<rpc, rwArgs, rerr>>
  /\ UNCHANGED othersRw

(* return rtn *)
RwReturn ==
  /\ rpc = "loop" /\ ~(rw_i < T1(rwArgs, Pos)[1].rows)
  /\ rpc' = "done"
  /\ UNCHANGED <<rwArgs, rw_i, rwReads, rwCalls, rtn, rerr>>
  /\ UNCHANGED othersRw

RwNext ==
  \/ RwCheck
  \/ \E checked \in BOOLEAN : RwIter0(checked)
  \/ RwLoop
  \/ RwReturn

RwSpecInit == RwInit /\ TapeInit /\ IntegQuiet /\ LmQuiet /\ VecQuiet

SpecRowwise == RwSpecInit /\ [][RwNext]_vars

(* ----------------------- vectorised functions ------------------------- *)
(* the scalar overload of a binary functor f *)
ScalarF(u, v) == <<"f", u, v>>

(* the vectorised overloads of f: elementwise over two containers, a scalar
   repeated against a container, and the same one level down for nested
   containers *)
VecVec(x, y) == [i \in 1..Len(x) |-> ScalarF(x[i], y[i])]

VecScal(x, sc) == [i \in 1..Len(x) |-> ScalarF(x[i], sc)]

ScalVec(sc, y) == [i \in 1..Len(y) |-> ScalarF(sc, y[i])]

NestNest(xx, yy) == [i \in 1..Len(xx) |-> VecVec(xx[i], yy[i])]

NestScal(xx, sc) == [i \in 1..Len(xx) |-> VecScal(xx[i], sc)]

ScalNest(sc, yy) == [i \in 1..Len(yy) |-> ScalVec(sc, yy[i])]

(* a double quotient, kept as numerator and denominator *)
Frac(p, q) == [num |-> p, den |-> q]

FracEq(p, q) == p.num * q.den = q.num * p.den

Square(v) == v * v

Fvar(v, d) == [val |-> v, d |-> d]

(* fvar<T> atan(const fvar<T>& x):
   fvar<T>(atan(x.val_), x.d_ / (1 + square(x.val_))) *)
AtanScalar(x) ==
  [val |-> <<"atan", x.val>>, d |-> Frac(x.d, 1 + Square(x.val))]

(* the functor atan hands to apply_vector_unary: result.val() = atan(vals);
   result.d().array() = v_ref.d().array() / (1 + square(vals).array()) *)
AtanLambdaNoSquare(v) ==
  LET vals == [i \in 1..Len(v) |-> v[i].val]
  IN [i \in 1..Len(v) |->
        [val |-> <<"atan", vals[i]>>, d |-> Frac(v[i].d, 1 + vals[i])]]

AtanLambda(v) ==
  LET vals == [i \in 1..Len(v) |-> v[i].val]
  IN [i \in 1..Len(v) |->
        [val |-> <<"atan", vals[i]>>,
         d |-> Frac(v[i].d, 1 + Square(vals[i]))]]

(* atan(const Container& x): apply_vector_unary<Container>::apply hands a
   flat container to the functor whole *)
AtanContainer(x) == AtanLambda(x)

(* apply_vector_unary on a nested container: each inner container in turn *)
AtanNested(xx) == [i \in 1..Len(xx) |-> AtanContainer(xx[i])]

(* auto cos(const T& x), T arithmetic: std::cos(x) *)
CosScalar(x) == <<"cos", x>>

(* the functor cos hands to apply_vector_unary: v.array().cos() *)
CosLambda(v) == [i \in 1..Len(v) |-> <<"cos", v[i]>>]

(* cos(const Container& x) on a flat container *)
CosContainer(x) == CosLambda(x)

(* the fvar container whose values are x and whose tangents are y *)
Fvars(x, y) == [i \in 1..Len(x) |-> Fvar(x[i], y[i])]

(* std::vector<T1> nest_x{x, x, x} *)
Nest3(x) == <<x, x, x>>

VecInit ==
  /\ \E len \in 2..MaxLen :
       vx \in SeqsOf(VecVals, len) /\ vy \in SeqsOf(VecVals, len)
  /\ vpc = "ready" /\ vout = <<>>

(* auto vec_vec = f(x, y) *)
CallVecVec ==
  /\ vpc = "ready"
  /\ vout' = VecVec(vx, vy) /\ vpc' = "vec_vec"
  /\ UNCHANGED <<vx, vy>>
  /\ UNCHANGED othersVec

(* auto vec_scal = f(x, y[1]) *)
CallVecScal ==
  /\ vpc = "ready"
  /\ vout' = VecScal(vx, vy[2]) /\ vpc' = "vec_scal"
  /\ UNCHANGED <<vx, vy>>
  /\ UNCHANGED othersVec

(* auto scal_vec = f(x[1], y) *)
CallScalVec ==
  /\ vpc = "ready"
  /\ vout' = ScalVec(vx[2], vy) /\ vpc' = "scal_vec"
  /\ UNCHANGED <<vx, vy>>
  /\ UNCHANGED othersVec

(* auto nestvec_nestvec = f(nest_x, nest_y) *)
CallNestNest ==
  /\ vpc = "ready"
  /\ vout' = NestNest(Nest3(vx), Nest3(vy)) /\ vpc' = "nest_nest"
  /\ UNCHANGED <<vx, vy>>
  /\ UNCHANGED othersVec

(* auto nestvec_scal = f(nest_x, y[1]) *)
CallNestScal ==
  /\ vpc = "ready"
  /\ vout' = NestScal(Nest3(vx), vy[2]) /\ vpc' = "nest_scal"
  /\ UNCHANGED <<vx, vy>>
  /\ UNCHANGED othersVec

(* auto scal_nestvec = f(x[1], nest_y) *)
CallScalNest ==
  /\ vpc = "ready"
  /\ vout' = ScalNest(vx[2], Nest3(vy)) /\ vpc' = "scal_nest"
  /\ UNCHANGED <<vx, vy>>
  /\ UNCHANGED othersVec

(* atan(const Container& x) on a container of fvar *)
CallAtan ==
  /\ vpc = "ready"
  /\ vout' = AtanContainer(Fvars(vx, vy)) /\ vpc' = "atan"
  /\ UNCHANGED <<vx, vy>>
  /\ UNCHANGED othersVec

(* atan(const Container& x) on a nested container of fvar *)
CallAtanNested ==
  /\ vpc = "ready"
  /\ vout' = AtanNested(Nest3(Fvars(vx, vy)))
  /\ vpc' = "atan_nested"
  /\ UNCHANGED <<vx, vy>>
  /\ UNCHANGED othersVec

(* cos(const Container& x) on a container of double *)
CallCos ==
  /\ vpc = "ready"
  /\ vout' = CosContainer(vx) /\ vpc' = "cos"
  /\ UNCHANGED <<vx, vy>>
  /\ UNCHANGED othersVec

VecNext ==
  \/ CallVecVec
  \/ CallVecScal
  \/ CallScalVec
  \/ CallNestNest
  \/ CallNestScal
  \/ CallScalNest
  \/ CallAtan
  \/ CallAtanNested
  \/ CallCos

VecSpecInit == VecInit /\ TapeInit /\ IntegQuiet /\ LmQuiet /\ RwQuiet

SpecVec == VecSpecInit /\ [][VecNext]_vars

(* ------------------------------ claims -------------------------------- *)
Consumers(t, a) == {c \in 1..Len(t) : \E k \in 1..Len(t[c].op) : t[c].op[k] = a}

(* C3: every node on the tape references only operands of strictly smaller
   index; a reverse pass runs from the last index down, so it calls chain()
   on every consumer of a node before the node itself, and every chain()
   writes only into adjoints of strictly smaller index. *)
C3_TopologicalTape ==
  /\ \A i \in 1..Len(tape) : \A k \in 1..Len(tape[i].op) :
       tape[i].op[k] \in 1..(i - 1)
  /\ \A p \in 1..Len(chained) :
       /\ chained[p] = Len(tape) - p + 1
       /\ \A c \in Consumers(tape, chained[p]) :
            \E q \in 1..(p - 1) : chained[q] = c
  /\ \A w \in writes : w[2] < w[1]

(* a finished pass over an operand with two consumers, both written *)
C3_Witness ==
  /\ ~pass.active /\ Len(chained) = 3
  /\ Consumers(tape, 1) = {2, 3}
  /\ {<<3, 1>>, <<2, 1>>} \subseteq writes

IsLog1pExp(n) == n.kind \in {"log1p_exp", "log1p_exp_mat"}

Contribution(t, i, k) == t[i].adj[k] * InvLogit(t[t[i].op[1]].val[k])

(* one chain() step of a log1p_exp node: only the operand's adjoint changes,
   by exactly the node's contribution *)
ChainStepFrame ==
  (pass.active /\ IsLog1pExp(tape[pass.next])) =>
    LET i == pass.next
        a == tape[i].op[1]
    IN /\ Len(tape') = Len(tape)
       /\ \A j \in 1..Len(tape) : j # a => tape'[j] = tape[j]
       /\ tape'[a] = [tape[a] EXCEPT !.adj =
            [k \in 1..Len(tape[a].adj) |->
               tape[a].adj[k] + Contribution(tape, i, k)]]

(* two consumers of one operand contribute the sum, in either order *)
ChainCommutes ==
  \A i, j \in 1..Len(tape) :
    (i # j /\ IsLog1pExp(tape[i]) /\ IsLog1pExp(tape[j])
       /\ tape[i].op = tape[j].op) =>
      LET a == tape[i].op[1]
          ij == Chain(Chain(tape, i), j)
          ji == Chain(Chain(tape, j), i)
      IN /\ ij = ji
         /\ \A k \in 1..Len(tape[a].adj) :
              ij[a].adj[k] = tape[a].adj[k] + Contribution(tape, i, k)
                               + Contribution(tape, j, k)

(* C7: the chain step of a log1p_exp node (scalar and matrix alike) only
   adds adjoint * g'(operand value) into the operand's adjoint; it never
   overwrites what was accumulated, leaves the node itself, the operand's
   value and the tape's structure unchanged, and two consumers of one
   operand contribute the sum of their contributions in either order. *)
C7_ChainOnlyAdds == [][ChainStepFrame]_vars /\ []ChainCommutes

(* an operand holding an accumulated adjoint after both consumers chained *)
C7_Witness ==
  /\ Len(chained) >= 2
  /\ \E a \in 1..Len(tape) :
       /\ Cardinality(Consumers(tape, a)) = 2
       /\ \A c \in Consumers(tape, a) :
            /\ IsLog1pExp(tape[c])
            /\ \E q \in 1..Len(chained) : chained[q] = c
       /\ \E c \in Consumers(tape, a) : tape[c].adj[1] # 0
       /\ tape[a].adj[1] # 0

CountEv(e) == Cardinality({k \in DOMAIN events : events[k][1] = e})

(* C1: for both entry points, when a or b is not finite the call fails with
   a reported error and does no quadrature work: no de_integrator call, no
   call of f or g, no nested region and no node appended to the tape. *)
C1_NonFiniteBoundNoWork ==
  (~IsFinite(lim_a) \/ ~IsFinite(lim_b)) =>
    /\ ipc \in {"entry", "threw"}
    /\ ipc = "threw" => err = "domain_error"
    /\ events = <<>> /\ fcalls = 0 /\ gcalls = 0
    /\ nested = <<>> /\ tape = tape0

(* the nested-AD entry point has rejected an infinite upper limit *)
C1_Witness ==
  /\ mode = "tsc" /\ ipc = "threw" /\ err = "domain_error"
  /\ lim_a = "finite" /\ lim_b = "+inf" /\ isVar /\ N = 2

(* C2: in nested-AD mode the region opened by start_nested is exited by
   recover_memory_nested exactly once on every exit path: when the call
   returns or propagates an error, the nesting depth and the tape up to the
   checkpoint are as they were when the region was entered. *)
C2_NestedRegionAlwaysExited ==
  (mode = "tsc" /\ ipc \in {"done", "threw"} /\ CountEv("start_nested") = 1) =>
    /\ CountEv("recover_memory_nested") = 1
    /\ nested = <<>>
    /\ SubSeq(tape, 1, Len(tapeN)) = tapeN
    /\ Len(tape) <= Len(tapeN) + 1

(* C4: analytic-gradient mode with N differentiable components runs exactly
   N + 1 quadratures on success, one over g per component and then one over
   f; with a constant parameter type it runs one quadrature over f and
   never evaluates g. *)
C4_TscgQuadratures ==
  (mode = "tscg" /\ ipc = "done") =>
    IF isVar
    THEN /\ events = [k \in 1..N |-> Quad("g", k)] \o <<Quad("f", 0)>>
         /\ Len(events) = N + 1
         /\ Len(grad) = N
    ELSE events = <<Quad("f", 0)>> /\ gcalls = 0

(* a successful analytic-gradient call over two components *)
C4_Witness ==
  mode = "tscg" /\ ipc = "done" /\ isVar /\ N = 2 /\ gcalls >= 2

(* C5 as stated: one nested region per component, N enter/exit pairs *)
C5_RegionPerComponent ==
  (mode = "tsc" /\ isVar /\ ipc = "done") =>
    /\ CountEv("start_nested") = N
    /\ CountEv("recover_memory_nested") = N
    /\ CountEv("to_var") = N

(* C5, amended: nested-AD mode opens one nested region, builds one
   differentiable copy of the parameters, runs the N component quadratures
   inside that region in order, and closes the region once: a successful
   call performs exactly one enter/exit pair whatever N is. *)
C5_SingleNestedRegion ==
  (mode = "tsc" /\ isVar /\ ipc = "done") =>
    events = <<Quad("f", 0), <<"start_nested", 0, 0>>, <<"to_var", 0, 0>>>>
               \o [k \in 1..N |-> Quad("gradient_of_f", k - 1)]
               \o <<<<"recover_memory_nested", 0, 0>>>>

(* a successful nested-AD call over two components *)
C5_Witness ==
  mode = "tsc" /\ isVar /\ ipc = "done" /\ N = 2 /\ Len(grad) = 2

(* C9: the gradient queries of nested-AD mode leave the outer tape alone:
   every node that existed at start_nested keeps its value and adjoint, and
   once the region is closed the tape has the length it had then, however
   many quadrature points were evaluated inside. *)
C9_OuterTapeUntouched ==
  (mode = "tsc" /\ CountEv("start_nested") = 1) =>
    /\ Len(tape) >= Len(tapeN)
    /\ \A j \in 1..Len(tapeN) : tape[j] = tapeN[j]
    /\ (CountEv("recover_memory_nested") = 1 /\ ipc \in {"tsc_build", "threw"})
         => tape = tapeN

(* the region was closed after several evaluations with a non-zero gradient,
   over outer nodes that carry an adjoint *)
C9_Witness ==
  /\ mode = "tsc" /\ ipc = "tsc_build" /\ N = 2 /\ fcalls >= 4
  /\ \E k \in 1..Len(grad) : grad[k] # 0
  /\ \E j \in 1..Len(tapeN) : tapeN[j].adj[1] # 0

LmInvalid ==
  \/ \E m \in 1..Len(theta) : theta[m] # "0.5"
  \/ \E k \in 1..Len(lambda) :
       \/ \E m \in 1..Len(lambda[k]) : lambda[k][m] \in {"nan", "inf"}
       \/ Len(lambda[k]) # Len(theta)

(* C6: log_mix detects every validation error (a proportion outside [0, 1],
   a NaN or non-finite theta or lambda entry, a lambda vector whose size
   differs from theta's) before any tape mutation: the error is propagated,
   the operands-and-partials accumulator is never constructed, build is
   never called and the tape is as before the call. *)
C6_LogMixChecksFirst ==
  /\ LmInvalid =>
       /\ lpc \in {"read", "check_lambda", "threw", "crashed"}
       /\ ~opsBuilt /\ ~buildCalled /\ tape = lmTape0
  /\ lpc = "threw" =>
       /\ LmInvalid /\ lerr # "none"
       /\ ~opsBuilt /\ ~buildCalled /\ tape = lmTape0

(* a size mismatch on the second-checked input was reported, theta being
   valid and differentiable *)
C6_Witness ==
  /\ lpc = "threw" /\ lerr = "check_consistent_sizes"
  /\ thetaIsVar /\ Len(theta) = 2 /\ Len(lambda) = 1 /\ Len(lambda[1]) = 1

(* the arguments of the pack that stand before the functor *)
BeforeFunctor ==
  {k \in 1..Len(rwArgs) :
     \A j \in 1..k : rwArgs[j].kind # "functor"}

IteratedRowsDiffer ==
  \E j, k \in BeforeFunctor : rwArgs[j].rows # rwArgs[k].rows

(* C10: rowwise called with iterated inputs (the arguments before the
   functor) that do not all have the same number of rows fails with a
   reported error before the functor is invoked and without producing a
   result row; the arguments after the functor take no part in the check. *)
C10_RowwiseRowsChecked ==
  /\ IteratedRowsDiffer =>
       /\ rpc \in {"entry", "threw"}
       /\ rpc = "threw" => rerr = "invalid_argument"
       /\ rwCalls = <<>> /\ rtn = <<>>
  /\ rerr = "invalid_argument" => IteratedRowsDiffer

(* three iterated inputs, the last with fewer rows, were rejected although
   the trailing argument has yet another number of rows *)
C10_Witness ==
  /\ rpc = "threw" /\ rerr = "invalid_argument"
  /\ Len(rwArgs) = 5 /\ rwArgs[4].kind = "functor"
  /\ rwArgs[1].rows = 2 /\ rwArgs[2].rows = 2 /\ rwArgs[3].rows = 1
  /\ rwArgs[5].rows = 0

SameAtan(r, x) ==
  r.val = AtanScalar(x).val /\ FracEq(r.d, AtanScalar(x).d)

(* C8: a vectorised function returns at every position what the scalar
   function returns on the elements at that position: f(x, y)[i] =
   f(x[i], y[i]); a scalar argument is repeated, f(x, s)[i] = f(x[i], s)
   and f(s, y)[i] = f(s, y[i]); the same holds element by element for
   nested containers, and the result has the shape of the container
   input. *)
C8_VectorisedMatchesScalar ==
  LET I == 1..Len(vx)
      s1 == vx[2]
      s2 == vy[2]
  IN
  /\ vpc \in {"vec_vec", "vec_scal", "scal_vec", "atan", "cos"}
       => Len(vout) = Len(vx)
  /\ vpc \in {"nest_nest", "nest_scal", "scal_nest", "atan_nested"}
       => Len(vout) = 3 /\ \A i \in 1..3 : Len(vout[i]) = Len(vx)
  /\ vpc = "vec_vec" => \A i \in I : vout[i] = ScalarF(vx[i], vy[i])
  /\ vpc = "vec_scal" => \A i \in I : vout[i] = ScalarF(vx[i], s2)
  /\ vpc = "scal_vec" => \A i \in I : vout[i] = ScalarF(s1, vy[i])
  /\ vpc = "nest_nest" =>
       \A i \in 1..3, j \in I : vout[i][j] = ScalarF(vx[j], vy[j])
  /\ vpc = "nest_scal" =>
       \A i \in 1..3, j \in I : vout[i][j] = ScalarF(vx[j], s2)
  /\ vpc = "scal_nest" =>
       \A i \in 1..3, j \in I : vout[i][j] = ScalarF(s1, vy[j])
  /\ vpc = "atan" => \A i \in I : SameAtan(vout[i], Fvar(vx[i], vy[i]))
  /\ vpc = "atan_nested" =>
       \A i \in 1..3, j \in I : SameAtan(vout[i][j], Fvar(vx[j], vy[j]))
  /\ vpc = "cos" => \A i \in I : vout[i] = CosScalar(vx[i])

(* the vectorised atan was applied where 1 + x^2 differs from 1 + x and
   the tangent is not zero *)
C8_Witness ==
  /\ vpc = "atan" /\ Len(vx) = 3
  /\ vx[3] = 2 /\ vy[3] = 2 /\ vout[3].d = Frac(2, 5)

(* the rows the iterated inputs share *)
RwRows == T1(rwArgs, Pos)[1].rows

(* the call rowwise owes row i (counted from 0): row i of every iterated
   input, then the trailing arguments as they were passed *)
RowCall(i) == RowIndex(T1(rwArgs, Pos), i) \o T2(rwArgs, Pos)

(* C11: when the iterated inputs all have rs rows, rs = 0 included, rowwise
   invokes the functor exactly rs times, for the rows 0..rs-1 in increasing
   order, each time on row i of every iterated input followed by the
   unchanged trailing arguments; row i of the result is the functor's result
   for row i, and no row outside 0..rs-1 is ever read. *)
C11_RowwiseExactlyRsCalls ==
  RowsEqual(T1(rwArgs, Pos)) =>
    /\ \A rd \in rwReads : rd[2] \in 1..RwRows
    /\ rpc \notin {"threw", "undefined"}
    /\ Len(rwCalls) <= RwRows
    /\ \A i \in 1..Len(rwCalls) :
         rwCalls[i] = RowCall(i - 1) /\ rtn[i] = Apply(rwCalls[i])
    /\ rpc = "done" => Len(rwCalls) = RwRows /\ Len(rtn) = RwRows

(* the same for inputs that have at least one row *)
C11_RowwiseNonEmpty ==
  RwRows >= 1 => C11_RowwiseExactlyRsCalls

(* gradient_of_f on a region that holds nothing but the fresh copy of the
   parameters: the same oracle expression, the same parameter values, the
   same component *)
FreshGradient(depth, comp) ==
  LET c == ToVarValueOf(tape0, param, pvals)
  IN GradientOfF(c.tape, <<Len(tape0)>>, c.handles, depth,
                 c.handles[comp + 1]).ret

(* nodes the oracle has left in the nested region *)
RegionNodes == Len(tape) - Len(tapeN) - N

(* C12: inside one nested region the value gradient_of_f returns depends
   only on the point, the parameter values and the selected component: it
   equals what the same evaluation returns on a region with no earlier
   evaluation, whatever evaluations (other points, other components) ran
   before it and left their nodes on the tape. *)
C12_GradientIndependentOfHistory ==
  (mode = "tsc" /\ ipc \in {"grad_loop", "grad_quad"} /\ lastEval.depth > 0)
    => lastEval.ret = FreshGradient(lastEval.depth, lastEval.comp)

(* a non-zero gradient was returned for the second component after
   evaluations at other points and for the other component, whose nodes are
   still in the region *)
C12_Witness ==
  /\ mode = "tsc" /\ ipc = "grad_quad" /\ lastEval.comp = 1
  /\ lastEval.ret # 0 /\ evals = 2
  /\ RegionNodes > 2 * lastEval.depth

(* C13: for every input of log_mix, a lambda vector of another size than
   theta included, every element read lambda[n][m] has m smaller than the
   size of lambda[n]: no element beyond a vector's own size is read before
   the size check has been settled. *)
C13_LogMixReadsInBounds ==
  /\ \A rd \in reads : rd[2] < Len(lambda[rd[1] + 1])
  /\ lpc # "crashed"

=============================================================================
